---- MODULE Spec2Model ----
(***************************************************************************)
(* A model of fdroidserver/vmtools.py: the provider selector               *)
(* (get_build_vm), the build-VM controllers (FDroidBuildVm and its two     *)
(* backends LibvirtBuildVm and VirtualboxBuildVm) and the process-wide     *)
(* lock that serialises up, halt and suspend.                              *)
(*                                                                         *)
(* The file system, the PATH, the vagrant box list and the outcome of      *)
(* every external tool or daemon call are the environment: the model draws *)
(* them from small sets.  A tool "fails" when it exits non-zero            *)
(* (subprocess.CalledProcessError) and the daemon "fails" when it raises   *)
(* libvirt.libvirtError.                                                   *)
(***************************************************************************)
EXTENDS Naturals, Sequences, FiniteSets, TLC

VARIABLES
    which,      \* the executables shutil.which finds on the PATH
    boxes,      \* what `vagrant box list` answers: [ok, list]: whether it answers, and the boxes
    fs,         \* per managed directory: isdir, Vagrantfile, the .vagrant node
    ctl,        \* the controller objects
    lock,       \* the holder of the module-level threading.Lock, or NoThread
    pc,         \* per thread: where it is inside the operation it runs
    cur,        \* per thread: the controller the running operation is bound to
    exc,        \* per thread: the tool error caught by up()'s except clause
    calls,      \* per thread: the external calls the running operation has made
    last,       \* the operation that returned in the last step, if one did
    exited,     \* os._exit(1) was called: the process is gone
    nops,       \* operations started so far (bounded by MaxOps)
    hist,       \* history: what each controller was built over, which up() returned
    pool,       \* the volumes of libvirt's storage pool 'default'
    wdir,       \* the files of the process's working directory: name -> content
    gcb,        \* get_clean_builder: where it is, and the operations it has called
    snaps       \* the snapshots the backends hold, and the name last asked for

vars == <<which, boxes, fs, ctl, lock, pc, cur, exc, calls, last, exited, nops, hist,
          pool, wdir, gcb, snaps>>

----------------------------------------------------------------------------
(* Bounds and fixed sets *)

Threads == {"t1", "t2"}
\* operations (calls of a controller method) one run of the model starts
MaxOps == 3
NoThread == "none"

Ctls == {"c1", "c2"}
NoCtl == "none"

Providers == {"libvirt", "virtualbox"}
\* what a caller may pass as `provider`: nothing, the empty string, the two
\* recognised names and one unrecognised name
ProviderArgs == {"None", "", "libvirt", "virtualbox", "vmware"}

\* managed directories, as absolute paths split into components
Dirs == {<<"srv", "builder">>}

Null == "None"
\* the identifier vagrant gives a machine it creates
NewIds == {"u2"}

Execs == {"kvm", "qemu", "qemu-kvm", "VBoxHeadless"}
BoxSet == {[name |-> "buildserver", provider |-> "libvirt"],
           [name |-> "buildserver", provider |-> "virtualbox"],
           [name |-> "jessie64", provider |-> "libvirt"]}

----------------------------------------------------------------------------
(* Errors *)

NoErr == [type |-> "none", what |-> ""]
ToolErr(cmd) == [type |-> "CalledProcessError", what |-> cmd]
DaemonErr(call) == [type |-> "libvirtError", what |-> call]

\* the record of one external call: through a subprocess ("tool") or the
\* libvirt connection ("daemon"), its command line, and whether it succeeded
Call(cmd, ok) == [cmd |-> cmd, ok |-> ok, via |-> "tool"]
\* the exception a failed call raises
ErrOf(call) == IF call.via = "tool" THEN ToolErr(call.cmd) ELSE DaemonErr(call.cmd)

NoSel == [arg |-> "None", over |-> <<>>, backend |-> "none", probed |-> {}]
NoValue == <<>>

\* how an operation ended: kind is "ok", "exit" or the exception's type;
\* cause is the exception's __cause__ (raise ... from e); opened are the
\* backend handles the operation opened; cs the external calls it made
Result(t, op, c, kind, what, cause, value, cs) ==
    [calls |-> cs, what |-> what, t |-> t, op |-> op, c |-> c, kind |-> kind,
     cause |-> cause, value |-> value, opened |-> {}, sel |-> NoSel]
NoResult == Result(NoThread, "none", NoCtl, "none", "", NoErr, NoValue, <<>>)

----------------------------------------------------------------------------
(* The file system under a managed directory *)

NoSubtree == [isdir |-> FALSE, files |-> <<>>]
Subtree(files) == [isdir |-> TRUE, files |-> files]
NoMachines == [p \in Providers |-> NoSubtree]

DotNone == [kind |-> "none", text |-> [ok |-> FALSE, val |-> <<>>], machines |-> NoMachines]
DotFile(text) == [kind |-> "file", text |-> text, machines |-> NoMachines]
DotDir(machines) == [kind |-> "dir", text |-> [ok |-> FALSE, val |-> <<>>], machines |-> machines]

\* the text of a format A state file: not JSON at all, or a JSON object
NotJson == [ok |-> FALSE, val |-> <<>>]
Json(val) == [ok |-> TRUE, val |-> val]
JsonActive(id) == Json([active |-> [default |-> id]])

\* the forms the model starts a directory's state in
InitTexts == {NotJson, Json([machines |-> Null]), Json([active |-> [other |-> "u1"]]),
              JsonActive("u1"), JsonActive(Null)}
InitSubtrees == {NoSubtree, Subtree(<<>>), Subtree([f \in {"private_key"} |-> "key"]),
                 Subtree([f \in {"id"} |-> "u1"])}
InitDots == {DotNone} \cup {DotFile(t) : t \in InitTexts}
            \cup {DotDir(m) : m \in [Providers -> InitSubtrees]}
InitFs == {[isdir |-> FALSE, vagrantfile |-> FALSE, dot |-> DotNone]}
          \cup {[isdir |-> TRUE, vagrantfile |-> v, dot |-> d] :
                    v \in BOOLEAN, d \in InitDots}

basename(d) == d[Len(d)]
srvname_of(d) == basename(d) \o "_default"

----------------------------------------------------------------------------
(* FDroidBuildVm._vagrant_fetch_uuid *)

\* json.load(f)['active']['default']: [err, val]
json_active_default(text) ==
    IF ~text.ok THEN [val |-> Null, err |-> "JSONDecodeError"]
    ELSE IF "active" \notin DOMAIN text.val THEN [val |-> Null, err |-> "KeyError"]
    ELSE IF "default" \notin DOMAIN text.val.active THEN [val |-> Null, err |-> "KeyError"]
    ELSE [val |-> text.val.active.default, err |-> "none"]

\* (mutant) the id file of any provider's subtree is taken
vagrant_fetch_uuid_any(fsd, provider) ==
    IF fsd.dot.kind = "file"
    THEN json_active_default(fsd.dot.text)
    ELSE IF \E p \in Providers :
                fsd.dot.kind = "dir" /\ fsd.dot.machines[p].isdir
                /\ "id" \in DOMAIN fsd.dot.machines[p].files
    THEN [val |-> fsd.dot.machines[
                    CHOOSE p \in Providers :
                        fsd.dot.machines[p].isdir
                        /\ "id" \in DOMAIN fsd.dot.machines[p].files].files["id"],
          err |-> "none"]
    ELSE [val |-> Null, err |-> "none"]

vagrant_fetch_uuid(fsd, provider) ==
    IF fsd.dot.kind = "file"
    THEN json_active_default(fsd.dot.text)
    ELSE IF fsd.dot.kind = "dir" /\ fsd.dot.machines[provider].isdir
           /\ "id" \in DOMAIN fsd.dot.machines[provider].files
    THEN [val |-> fsd.dot.machines[provider].files["id"], err |-> "none"]
    ELSE [val |-> Null, err |-> "none"]

----------------------------------------------------------------------------
(* Construction: FDroidBuildVm.__init__ and the two backends' __init__ *)

NoController ==
    [provider |-> "", state |-> "none", srvdir |-> <<>>, srvname |-> "",
     srvuuid |-> Null, vgrnt |-> FALSE, conn |-> FALSE]

CfgErr(what) == [type |-> "FDroidBuildVmException", what |-> what]

\* FDroidBuildVm.__init__: [err, obj]; obj is the object as far as it got
BaseInit(fsd, d, provider) ==
    LET f == vagrant_fetch_uuid(fsd, provider)
        o == [provider |-> provider, state |-> "ready", srvdir |-> d,
              srvname |-> srvname_of(d), srvuuid |-> f.val,
              vgrnt |-> FALSE, conn |-> FALSE]
    IN  IF f.err # "none"
        THEN [err |-> [type |-> f.err, what |-> ".vagrant"], obj |-> o]
        ELSE IF ~fsd.isdir
        THEN [err |-> CfgErr("directory not present"), obj |-> o]
        ELSE IF ~fsd.vagrantfile
        THEN [err |-> CfgErr("Vagrantfile not present"), obj |-> o]
        ELSE [err |-> NoErr, obj |-> [o EXCEPT !.vgrnt = TRUE]]

\* LibvirtBuildVm.__init__; connOk: libvirt.open('qemu:///system') answers
LibvirtInit(fsd, d, connOk) ==
    LET b == BaseInit(fsd, d, "libvirt")
    IN  IF b.err # NoErr THEN b
        ELSE IF connOk THEN [err |-> NoErr, obj |-> [b.obj EXCEPT !.conn = TRUE]]
        ELSE [err |-> CfgErr("could not connect to libvirtd"), obj |-> b.obj]

\* VirtualboxBuildVm.__init__
VirtualboxInit(fsd, d) == BaseInit(fsd, d, "virtualbox")

BackendInit(backend, fsd, d, connOk) ==
    IF backend = "libvirt" THEN LibvirtInit(fsd, d, connOk)
    ELSE VirtualboxInit(fsd, d)

----------------------------------------------------------------------------
(* get_build_vm: the provider selector *)

kvm_installed(w) == ("kvm" \in w) \/ ("qemu" \in w) \/ ("qemu-kvm" \in w)
vbox_installed(w) == "VBoxHeadless" \in w

\* isdir(<srvdir>/.vagrant/machines/default/<p>) and len(os.listdir(..)) > 0
has_machine(fsd, p) ==
    /\ fsd.dot.kind = "dir"
    /\ fsd.dot.machines[p].isdir
    /\ Cardinality(DOMAIN fsd.dot.machines[p].files) > 0

available_boxes(bl) == {b.provider : b \in {x \in bl : x.name = "buildserver"}}

Chosen(backend, probed) == [backend |-> backend, probed |-> probed]

\* (mutant) no box for either provider: fall back to virtualbox
select_by_boxes_default(bx, probed) ==
    IF ~bx.ok THEN Chosen("raise", probed)
    ELSE IF "libvirt" \in available_boxes(bx.list)
            /\ "virtualbox" \notin available_boxes(bx.list)
    THEN Chosen("libvirt", probed)
    ELSE Chosen("virtualbox", probed)

\* the last stage: the boxes vagrant knows; "raise" when the query fails
select_by_boxes(bx, probed) ==
    IF ~bx.ok THEN Chosen("raise", probed)
    ELSE IF "libvirt" \in available_boxes(bx.list)
            /\ "virtualbox" \in available_boxes(bx.list)
    THEN Chosen("virtualbox", probed)
    ELSE IF "libvirt" \in available_boxes(bx.list) THEN Chosen("libvirt", probed)
    ELSE IF "virtualbox" \in available_boxes(bx.list) THEN Chosen("virtualbox", probed)
    ELSE Chosen("exit", probed)

\* the middle stage: the machine subtrees under .vagrant
select_by_dirs(fsd, bx, probed) ==
    IF has_machine(fsd, "libvirt") /\ has_machine(fsd, "virtualbox")
    THEN Chosen("virtualbox", probed)
    ELSE IF has_machine(fsd, "libvirt") THEN Chosen("libvirt", probed)
    ELSE IF has_machine(fsd, "virtualbox") THEN Chosen("virtualbox", probed)
    ELSE select_by_boxes(bx, probed \cup {"boxes"})

\* (mutant) the machine subtrees are looked at before the installed tools
select_by_tools_dirs_first(w, fsd, bx) ==
    IF has_machine(fsd, "libvirt") \/ has_machine(fsd, "virtualbox")
    THEN select_by_dirs(fsd, bx, {"which", "dirs"})
    ELSE IF kvm_installed(w) /\ ~vbox_installed(w) THEN Chosen("libvirt", {"which"})
    ELSE IF vbox_installed(w) /\ ~kvm_installed(w) THEN Chosen("virtualbox", {"which"})
    ELSE select_by_dirs(fsd, bx, {"which", "dirs"})

\* the first probing stage: the installed tools
select_by_tools(w, fsd, bx) ==
    IF kvm_installed(w) /\ vbox_installed(w)
    THEN select_by_dirs(fsd, bx, {"which", "dirs"})
    ELSE IF kvm_installed(w) THEN Chosen("libvirt", {"which"})
    ELSE IF vbox_installed(w) THEN Chosen("virtualbox", {"which"})
    ELSE select_by_dirs(fsd, bx, {"which", "dirs"})

\* (mutant) an explicit provider is only a hint: the probes still decide
select_probes_first(provider, w, fsd, bx) ==
    IF select_by_tools(w, fsd, bx).backend \in Providers
    THEN select_by_tools(w, fsd, bx)
    ELSE IF provider \in Providers THEN Chosen(provider, {})
    ELSE select_by_tools(w, fsd, bx)

\* `if provider:` is false for None and for the empty string
select(provider, w, fsd, bx) ==
    IF provider # "None" /\ provider # "" /\ provider = "libvirt"
    THEN Chosen("libvirt", {})
    ELSE IF provider # "None" /\ provider # "" /\ provider = "virtualbox"
    THEN Chosen("virtualbox", {})
    ELSE select_by_tools(w, fsd, bx)

----------------------------------------------------------------------------
(* Initial states *)

NoHist ==
    [born |-> [c \in Ctls |-> FALSE],      \* built over neither state form
     upOk |-> [c \in Ctls |-> FALSE],      \* an up() has returned without error
     raced |-> [c \in Ctls |-> FALSE],     \* ... after .vagrant changed under it
     dirty |-> [t \in Threads |-> FALSE]]  \* .vagrant changed since t's start call

NeitherForm(fsd, provider) ==
    /\ fsd.dot.kind # "file"
    /\ ~(fsd.dot.kind = "dir" /\ fsd.dot.machines[provider].isdir
           /\ "id" \in DOMAIN fsd.dot.machines[provider].files)

\* nothing packaged yet, nothing in the storage pool
NoFiles == <<>>
\* get_clean_builder has not been called
GcbIdle == [at |-> "idle", serverdir |-> <<>>, log |-> <<>>, raised |-> NoErr]
\* no backend holds a snapshot
NoSnaps == [store |-> {}, asked |-> Null]
Untouched == pool = {} /\ wdir = NoFiles /\ gcb = GcbIdle /\ snaps = NoSnaps

ThreadsIdle ==
    /\ lock = NoThread
    /\ pc = [t \in Threads |-> "idle"]
    /\ cur = [t \in Threads |-> NoCtl]
    /\ exc = [t \in Threads |-> NoErr]
    /\ calls = [t \in Threads |-> <<>>]
    /\ last = NoResult
    /\ exited = FALSE
    /\ nops = 0

\* the selector and the constructors, over every environment
InitSel ==
    /\ which \in SUBSET Execs
    /\ boxes \in {[ok |-> FALSE, list |-> {}]}
                 \cup {[ok |-> TRUE, list |-> l] : l \in SUBSET BoxSet}
    /\ fs \in [Dirs -> InitFs]
    /\ ctl = [c \in Ctls |-> NoController]
    /\ hist = NoHist
    /\ ThreadsIdle
    /\ Untouched

\* the controllers' life: the state after each controller was constructed
\* over a well-formed directory
LifeInitDots ==
    {DotNone, DotFile(JsonActive("u1")),
     DotDir([NoMachines EXCEPT !["libvirt"] = Subtree([f \in {"id"} |-> "u1"])])}
LifeInitFs == {[isdir |-> TRUE, vagrantfile |-> TRUE, dot |-> d] : d \in LifeInitDots}

Init ==
    /\ which = {}
    /\ boxes = [ok |-> TRUE, list |-> {}]
    /\ fs \in [Dirs -> LifeInitFs]
    /\ \E pr \in [Ctls -> Providers], dr \in [Ctls -> Dirs] :
          /\ ctl = [c \in Ctls |-> BackendInit(pr[c], fs[dr[c]], dr[c], TRUE).obj]
          /\ hist = [NoHist EXCEPT
                        !.born = [c \in Ctls |-> NeitherForm(fs[dr[c]], pr[c])]]
    /\ ThreadsIdle
    /\ Untouched

----------------------------------------------------------------------------
(* Operation plumbing *)

CanStart(t, c) ==
    /\ ~exited
    /\ pc[t] = "idle"
    /\ ctl[c].state = "ready"
    /\ nops < MaxOps

Begin(t, c, at) ==
    /\ pc' = [pc EXCEPT ![t] = at]
    /\ cur' = [cur EXCEPT ![t] = c]
    /\ calls' = [calls EXCEPT ![t] = <<>>]
    /\ nops' = nops + 1

\* a step in which no operation returns
Silent == last' = NoResult

Return(t, result) ==
    /\ last' = result
    /\ pc' = [pc EXCEPT ![t] = "idle"]
    /\ cur' = [cur EXCEPT ![t] = NoCtl]
    /\ calls' = [calls EXCEPT ![t] = <<>>]

Ok(t, op, c, value, cs) == Result(t, op, c, "ok", "", NoErr, value, cs)
\* raise FDroidBuildVmException(what) from e
Wrapped(t, op, c, what, e, value, cs) ==
    Result(t, op, c, "FDroidBuildVmException", what, e, value, cs)
\* an exception that propagates as it is
Raw(t, op, c, e, cs) == Result(t, op, c, e.type, e.what, NoErr, NoValue, cs)

----------------------------------------------------------------------------
(* get_build_vm(srvdir, provider) *)

OpenedBy(obj) == {h \in {"vgrnt", "conn"} :
                    (h = "vgrnt" /\ obj.vgrnt) \/ (h = "conn" /\ obj.conn)}

BoxListCmd == <<"vagrant", "box", "list">>

\* what one call of get_build_vm comes to: how it ends, the backend it
\* selected, and the object its constructor made
get_build_vm(t, c, d, provider, connOk) ==
    LET s == select(provider, which, fs[d], boxes)
        made == BackendInit(s.backend, fs[d], d, connOk)
        cs == IF "boxes" \in s.probed THEN <<Call(BoxListCmd, boxes.ok)>> ELSE <<>>
        chose == [arg |-> provider, over |-> d, backend |-> s.backend,
                  probed |-> s.probed]
        r == IF s.backend = "exit"
             THEN Result(t, "get_build_vm", c, "exit", "os._exit", NoErr, <<1>>, cs)
             ELSE IF s.backend = "raise"
             THEN Raw(t, "get_build_vm", c, ToolErr(BoxListCmd), cs)
             ELSE IF made.err = NoErr
             THEN Ok(t, "get_build_vm", c, NoValue, cs)
             ELSE Result(t, "get_build_vm", c, made.err.type, made.err.what,
                         NoErr, NoValue, cs)
        opened == IF s.backend \in Providers THEN OpenedBy(made.obj) ELSE {}
    IN  [backend |-> s.backend,
         result |-> [r EXCEPT !.sel = chose, !.opened = opened], made |-> made]

\* the effects of one call of get_build_vm by thread t into slot c
Selecting(t, c, d, provider, connOk) ==
    /\ ~exited
    /\ pc[t] = "idle"
    /\ ctl[c].state = "none"
    /\ LET g == get_build_vm(t, c, d, provider, connOk)
       IN  /\ last' = g.result
           /\ exited' = (g.backend = "exit")
           /\ IF g.backend \in Providers /\ g.made.err = NoErr
              THEN /\ ctl' = [ctl EXCEPT ![c] = g.made.obj]
                   /\ hist' = [hist EXCEPT !.born[c] = NeitherForm(fs[d], g.backend)]
              ELSE UNCHANGED <<ctl, hist>>
    /\ UNCHANGED <<snaps, pool, wdir, which, boxes, fs, lock, pc, cur, exc, calls, nops>>

GetBuildVm(t, c, d, provider, connOk) ==
    /\ Selecting(t, c, d, provider, connOk)
    /\ UNCHANGED gcb

----------------------------------------------------------------------------
(* FDroidBuildVm.vagrant_uuid_okay *)

vagrant_uuid_okay(obj) == IF obj.srvuuid = Null THEN FALSE ELSE TRUE

----------------------------------------------------------------------------
(* What the external `vagrant` does to the managed directory *)

HasId(fsd, p) ==
    /\ fsd.dot.kind = "dir"
    /\ fsd.dot.machines[p].isdir
    /\ "id" \in DOMAIN fsd.dot.machines[p].files

\* a successful `vagrant up --provider=p` leaves the machine's id under
\* .vagrant/machines/default/<p>/id: the id it had, or a new one
vagrant_up_effect(fsd, p, newid) ==
    IF HasId(fsd, p) THEN fsd
    ELSE LET m == IF fsd.dot.kind = "dir" THEN fsd.dot.machines ELSE NoMachines
             files == IF m[p].isdir THEN m[p].files ELSE <<>>
             withid == [f \in (DOMAIN files) \cup {"id"} |->
                            IF f = "id" THEN newid ELSE files[f]]
         IN  [fsd EXCEPT !.dot = DotDir([m EXCEPT ![p] = Subtree(withid)])]

\* vagrant cannot succeed over a state file it cannot read
vagrant_can_run(fsd) == fsd.isdir /\ fsd.vagrantfile
                        /\ (fsd.dot.kind = "file" => fsd.dot.text.ok)

\* a successful `vagrant destroy` forgets the machine's id
vagrant_destroy_effect(fsd) ==
    IF fsd.dot.kind # "dir" THEN fsd
    ELSE [fsd EXCEPT !.dot.machines =
            [p \in Providers |->
                IF fsd.dot.machines[p].isdir
                THEN Subtree([f \in (DOMAIN fsd.dot.machines[p].files) \ {"id"} |->
                                 fsd.dot.machines[p].files[f]])
                ELSE NoSubtree]]

----------------------------------------------------------------------------
(* FDroidBuildVm.up / suspend / halt: under the module-level lock *)

\* (mutant) the lock is taken without waiting for it to be free
AcquireLockNoWait(t) == lock' = t

\* `with lock:` blocks until the lock is free, then takes it
AcquireLock(t) == lock = NoThread /\ lock' = t

\* (mutant) the lock stays with the thread that leaves the block
ReleaseLockForgotten(t) == lock' = lock

\* the `with lock:` block is left, by return or by exception
ReleaseLock(t) == lock' = NoThread

UpCmd(p) == <<"vagrant", "up", "--provider", p>>
StatusCmd == <<"vagrant", "status">>
SuspendCmd == <<"vagrant", "suspend">>
HaltCmd == <<"vagrant", "halt", "--force">>

UpCall(t, c) ==
    /\ CanStart(t, c)
    /\ Begin(t, c, "up_wait")
    /\ Silent
    /\ UNCHANGED <<snaps, gcb, pool, wdir, which, boxes, fs, ctl, lock, exc, exited, hist>>

UpAcquire(t) ==
    /\ pc[t] = "up_wait"
    /\ AcquireLock(t)
    /\ pc' = [pc EXCEPT ![t] = "up_start"]
    /\ Silent
    /\ UNCHANGED <<snaps, gcb, pool, wdir, which, boxes, fs, ctl, cur, exc, calls, exited, nops, hist>>

\* self.vgrnt.up(provision=provision, provider=self.provider)
UpStart(t, ok, newid) ==
    /\ pc[t] = "up_start"
    /\ LET c == cur[t]
           d == ctl[c].srvdir
           p == ctl[c].provider
       IN  /\ ok => vagrant_can_run(fs[d])
           /\ calls' = [calls EXCEPT ![t] = Append(@, Call(UpCmd(p), ok))]
           /\ IF ok
              THEN /\ fs' = [fs EXCEPT ![d] = vagrant_up_effect(fs[d], p, newid)]
                   /\ pc' = [pc EXCEPT ![t] = "up_fetch"]
                   /\ exc' = exc
              ELSE /\ fs' = fs
                   /\ pc' = [pc EXCEPT ![t] = "up_status"]
                   /\ exc' = [exc EXCEPT ![t] = ToolErr(UpCmd(p))]
    /\ hist' = [hist EXCEPT !.dirty[t] = FALSE]
    /\ Silent
    /\ UNCHANGED <<snaps, gcb, pool, wdir, which, boxes, ctl, lock, cur, exited, nops>>

\* (mutant) up() forgets to store what it fetched
refresh_skipped(obj, val) == obj

\* the assignment self.srvuuid = ... at the end of a successful start
refresh(obj, val) == [obj EXCEPT !.srvuuid = val]

\* self.srvuuid = self._vagrant_fetch_uuid(), then the lock is released
UpFetch(t) ==
    /\ pc[t] = "up_fetch"
    /\ LET c == cur[t]
           f == vagrant_fetch_uuid(fs[ctl[c].srvdir], ctl[c].provider)
       IN  IF f.err = "none"
           THEN /\ ctl' = [ctl EXCEPT ![c] = refresh(@, f.val)]
                /\ Return(t, Ok(t, "up", c, NoValue, calls[t]))
                /\ hist' = [hist EXCEPT !.upOk[c] = TRUE,
                                        !.raced[c] = @ \/ hist.dirty[t],
                                        !.dirty[t] = FALSE]
           ELSE /\ ctl' = ctl
                /\ Return(t, Raw(t, "up", c, [type |-> f.err, what |-> ".vagrant"],
                                 calls[t]))
                /\ hist' = [hist EXCEPT !.dirty[t] = FALSE]
    /\ ReleaseLock(t)
    /\ UNCHANGED <<snaps, gcb, pool, wdir, which, boxes, fs, exc, exited, nops>>

\* (mutant) a failing status query replaces the start tool's error
up_failure_status_wins(t, c, e, st, cs) ==
    Wrapped(t, "up", c, "could not bring up vm",
            IF st = "fail" THEN ToolErr(StatusCmd) ELSE e, NoValue,
            Append(cs, Call(StatusCmd, st # "fail")))

\* the except clause of up(): e is the start tool's error, st the outcome of
\* self.vgrnt.status(): an entry, no entries, or a failure of its own
up_failure(t, c, e, st, cs) ==
    LET statusline == IF st = "entry"
                      THEN <<"VM status", "default", "poweroff", ctl[c].provider>>
                      ELSE NoValue
    IN  Wrapped(t, "up", c, "could not bring up vm", e, statusline,
                Append(cs, Call(StatusCmd, st # "fail")))

UpStatus(t, st) ==
    /\ pc[t] = "up_status"
    /\ Return(t, up_failure(t, cur[t], exc[t], st, calls[t]))
    /\ exc' = [exc EXCEPT ![t] = NoErr]
    /\ ReleaseLock(t)
    /\ UNCHANGED <<snaps, gcb, pool, wdir, which, boxes, fs, ctl, exited, nops, hist>>

SuspendCall(t, c) ==
    /\ CanStart(t, c)
    /\ Begin(t, c, "suspend_wait")
    /\ Silent
    /\ UNCHANGED <<snaps, gcb, pool, wdir, which, boxes, fs, ctl, lock, exc, exited, hist>>

SuspendAcquire(t) ==
    /\ pc[t] = "suspend_wait"
    /\ AcquireLock(t)
    /\ pc' = [pc EXCEPT ![t] = "suspend_run"]
    /\ Silent
    /\ UNCHANGED <<snaps, gcb, pool, wdir, which, boxes, fs, ctl, cur, exc, calls, exited, nops, hist>>

\* self.vgrnt.suspend() and what suspend() makes of its outcome
suspend_result(t, c, ok) ==
    IF ok THEN Ok(t, "suspend", c, NoValue, <<Call(SuspendCmd, TRUE)>>)
    ELSE Wrapped(t, "suspend", c, "could not suspend vm", ToolErr(SuspendCmd),
                 NoValue, <<Call(SuspendCmd, FALSE)>>)

SuspendRun(t, ok) ==
    /\ pc[t] = "suspend_run"
    /\ Return(t, suspend_result(t, cur[t], ok))
    /\ ReleaseLock(t)
    /\ UNCHANGED <<snaps, gcb, pool, wdir, which, boxes, fs, ctl, exc, exited, nops, hist>>

HaltCall(t, c) ==
    /\ CanStart(t, c)
    /\ Begin(t, c, "halt_wait")
    /\ Silent
    /\ UNCHANGED <<snaps, gcb, pool, wdir, which, boxes, fs, ctl, lock, exc, exited, hist>>

HaltAcquire(t) ==
    /\ pc[t] = "halt_wait"
    /\ AcquireLock(t)
    /\ pc' = [pc EXCEPT ![t] = "halt_run"]
    /\ Silent
    /\ UNCHANGED <<snaps, gcb, pool, wdir, which, boxes, fs, ctl, cur, exc, calls, exited, nops, hist>>

\* (mutant) a failed stop is logged and halt() returns
halt_result_swallowed(t, c, ok) == Ok(t, "halt", c, NoValue, <<Call(HaltCmd, ok)>>)

\* self.vgrnt.halt(force=True): no except clause
halt_result(t, c, ok) ==
    IF ok THEN Ok(t, "halt", c, NoValue, <<Call(HaltCmd, TRUE)>>)
    ELSE Raw(t, "halt", c, ToolErr(HaltCmd), <<Call(HaltCmd, FALSE)>>)

HaltRun(t, ok) ==
    /\ pc[t] = "halt_run"
    /\ Return(t, halt_result(t, cur[t], ok))
    /\ ReleaseLock(t)
    /\ UNCHANGED <<snaps, gcb, pool, wdir, which, boxes, fs, ctl, exc, exited, nops, hist>>

----------------------------------------------------------------------------
(* FDroidBuildVm.destroy and LibvirtBuildVm.destroy: not under the lock *)

DestroyCmd == <<"vagrant", "destroy">>
RmtreeCmd == <<"shutil.rmtree", ".vagrant">>
PruneCmd == <<"vagrant", "global-status", "--prune">>
VirshDestroyCmd(name) == <<"virsh", "-c", "qemu:///system", "destroy", name>>
VirshUndefineCmd(name) ==
    <<"virsh", "-c", "qemu:///system", "undefine", name, "--nvram",
      "--managed-save", "--remove-all-storage", "--snapshots-metadata">>

\* another thread's up() is between its start call and its refresh on d
MarkDirty(d) ==
    [t \in Threads |->
        hist.dirty[t] \/ (pc[t] = "up_fetch" /\ ctl[cur[t]].srvdir = d)]

\* the steps of destroy(), in the order the code takes them; the libvirt
\* backend runs the base class's three and then its two virsh calls
destroy_plan(obj) ==
    <<DestroyCmd, RmtreeCmd, PruneCmd>>
    \o (IF obj.provider = "libvirt"
        THEN <<VirshDestroyCmd(obj.srvname), VirshUndefineCmd(obj.srvname)>>
        ELSE <<>>)

\* (mutant) destroy() gives up at the first step that fails
destroy_stops_on_failure(i, ok) == ok

\* whether destroy() goes on after its i-th step ended ok or failed: every
\* step sits in a try whose except clause only logs
destroy_goes_on(i, ok) == TRUE

DestroyCall(t, c) ==
    /\ CanStart(t, c)
    /\ Begin(t, c, "d_vagrant")
    /\ Silent
    /\ UNCHANGED <<snaps, gcb, pool, wdir, which, boxes, fs, ctl, lock, exc, exited, hist>>

\* (mutant) destroy() drops the stored identifier with the state it removes
DestroyStepForgets(t, i, to, ok, fsd) ==
    LET c == cur[t]
        d == ctl[c].srvdir
        cmd == destroy_plan(ctl[c])[i]
        cs == Append(calls[t], Call(cmd, ok))
    IN  /\ fs' = [fs EXCEPT ![d] = fsd]
        /\ ctl' = [ctl EXCEPT ![c].srvuuid = IF fsd.dot.kind = "none" THEN Null ELSE @]
        /\ hist' = IF fsd # fs[d] THEN [hist EXCEPT !.dirty = MarkDirty(d)] ELSE hist
        /\ pc' = [pc EXCEPT ![t] = to]
        /\ calls' = [calls EXCEPT ![t] = cs]
        /\ Silent
        /\ UNCHANGED <<snaps, gcb, pool, wdir, which, boxes, lock, cur, exc, exited, nops>>

\* one of the two steps of destroy() that touch the managed directory
DestroyStep(t, i, to, ok, fsd) ==
    LET c == cur[t]
        d == ctl[c].srvdir
        cmd == destroy_plan(ctl[c])[i]
        cs == Append(calls[t], Call(cmd, ok))
    IN  /\ fs' = [fs EXCEPT ![d] = fsd]
        /\ hist' = IF fsd # fs[d] THEN [hist EXCEPT !.dirty = MarkDirty(d)] ELSE hist
        /\ IF destroy_goes_on(i, ok)
           THEN /\ pc' = [pc EXCEPT ![t] = to]
                /\ calls' = [calls EXCEPT ![t] = cs]
                /\ Silent
                /\ UNCHANGED cur
           ELSE Return(t, Raw(t, "destroy", c, ToolErr(cmd), cs))
        /\ UNCHANGED <<snaps, gcb, pool, wdir, which, boxes, ctl, lock, exc, exited, nops>>

\* (mutant) destroy() runs its first step only while the lock is free
DVagrantUnderLock(t, ok) ==
    /\ pc[t] = "d_vagrant"
    /\ lock = NoThread
    /\ LET fsd == fs[ctl[cur[t]].srvdir]
       IN  /\ ok => vagrant_can_run(fsd)
           /\ DestroyStep(t, 1, "d_rmtree", ok,
                          IF ok THEN vagrant_destroy_effect(fsd) ELSE fsd)

\* self.vgrnt.destroy()
DVagrant(t, ok) ==
    /\ pc[t] = "d_vagrant"
    /\ LET fsd == fs[ctl[cur[t]].srvdir]
       IN  /\ ok => vagrant_can_run(fsd)
           /\ DestroyStep(t, 1, "d_rmtree", ok,
                          IF ok THEN vagrant_destroy_effect(fsd) ELSE fsd)

\* shutil.rmtree(<srvdir>/.vagrant): fails when .vagrant is no directory
DRmtree(t, ok) ==
    /\ pc[t] = "d_rmtree"
    /\ LET fsd == fs[ctl[cur[t]].srvdir]
       IN  /\ ok => fsd.dot.kind = "dir"
           /\ DestroyStep(t, 2, "d_tail", ok,
                          IF ok THEN [fsd EXCEPT !.dot = DotNone] ELSE fsd)

\* the first of the steps from..n after which destroy() does not go on, or n
RECURSIVE destroy_stops_at(_, _, _)
destroy_stops_at(from, n, oks) ==
    IF from >= n THEN n
    ELSE IF ~destroy_goes_on(from, oks[from]) THEN from
    ELSE destroy_stops_at(from + 1, n, oks)

\* the steps of destroy() that touch nothing of the managed directory: the
\* prune of vagrant's global status and, on libvirt, virsh destroy and
\* virsh undefine; oks[i] is the outcome of step i
destroy_tail(t, c, cs, oks) ==
    LET plan == destroy_plan(ctl[c])
        n == Len(plan)
        m == destroy_stops_at(3, n, oks)
        all == cs \o [i \in 1..(m - 2) |-> Call(plan[i + 2], oks[i + 2])]
    IN  IF destroy_goes_on(m, oks[m])
        THEN Ok(t, "destroy", c, NoValue, all)
        ELSE Raw(t, "destroy", c, ToolErr(plan[m]), all)

DTail(t, oks) ==
    /\ pc[t] = "d_tail"
    /\ \A i \in DOMAIN oks : i > Len(destroy_plan(ctl[cur[t]])) => oks[i]
    /\ Return(t, destroy_tail(t, cur[t], calls[t], oks))
    /\ UNCHANGED <<snaps, gcb, pool, wdir, which, boxes, fs, ctl, lock, exc, exited, nops, hist>>

----------------------------------------------------------------------------
(* FDroidBuildVm.sshinfo *)

SshConfigCmd == <<"vagrant", "ssh-config">>
Quote == "\""

\* sshconfig['identityfile'] as the parser hands it over: one value or a
\* list of values, a value being a sequence of characters
IdfileShapes ==
    {[islist |-> FALSE, items |-> <<(<<Quote, "k", Quote>>)>>],
     [islist |-> FALSE, items |-> <<(<<"k">>)>>],
     [islist |-> TRUE, items |-> <<(<<Quote, "k", Quote>>), <<"j">>>>],
     [islist |-> TRUE, items |-> <<(<<"k">>), <<"j">>>>]}

startswith_quote(v) == Len(v) > 0 /\ v[1] = Quote
endswith_quote(v) == Len(v) > 0 /\ v[Len(v)] = Quote

\* (mutant) the quotes are stripped from a list's first element as well
ssh_idfile_strips_all(parsed) ==
    IF startswith_quote(parsed.items[1]) /\ endswith_quote(parsed.items[1])
    THEN SubSeq(parsed.items[1], 2, Len(parsed.items[1]) - 1)
    ELSE parsed.items[1]

ssh_idfile(parsed) ==
    IF parsed.islist THEN parsed.items[1]
    ELSE IF startswith_quote(parsed.items[1]) /\ endswith_quote(parsed.items[1])
    THEN SubSeq(parsed.items[1], 2, Len(parsed.items[1]) - 1)
    ELSE parsed.items[1]

\* the value of a returned sshinfo(): the 'idfile' entry of the dictionary,
\* and beside it what the parser had handed over
sshinfo_result(t, c, ok, parsed) ==
    IF ok THEN Ok(t, "sshinfo", c, <<ssh_idfile(parsed), parsed>>,
                  <<Call(SshConfigCmd, TRUE)>>)
    ELSE Wrapped(t, "sshinfo", c, "Error getting ssh config", ToolErr(SshConfigCmd),
                 NoValue, <<Call(SshConfigCmd, FALSE)>>)

\* an operation that runs from call to return in one step
Atomic(t, c, result) ==
    /\ CanStart(t, c)
    /\ last' = result
    /\ nops' = nops + 1
    /\ UNCHANGED <<snaps, gcb, pool, wdir, which, boxes, fs, ctl, lock, pc, cur, exc, calls, exited, hist>>

Sshinfo(t, c, ok, parsed) == Atomic(t, c, sshinfo_result(t, c, ok, parsed))

----------------------------------------------------------------------------
(* snapshot_create / snapshot_list / snapshot_revert of the two backends *)

SnapNames == {"fdroidclean", "s1"}
SnapOps == {"snapshot_create", "snapshot_list", "snapshot_revert"}

Step(via, cmd) == [cmd |-> cmd, via |-> via]

\* LibvirtBuildVm: virsh for create, the daemon connection for list and revert
libvirt_snapshot_plan(obj, op, name) ==
    IF op = "snapshot_create"
    THEN <<Step("tool", <<"virsh", "-c", "qemu:///system", "snapshot-create-as",
                          obj.srvname, name>>)>>
    ELSE IF op = "snapshot_list"
    THEN <<Step("daemon", <<"lookupByName", obj.srvname>>),
           Step("daemon", <<"listAllSnapshots">>)>>
    ELSE <<Step("daemon", <<"lookupByName", obj.srvname>>),
           Step("daemon", <<"snapshotLookupByName", name>>),
           Step("daemon", <<"revertToSnapshot", name>>)>>

\* VirtualboxBuildVm: VBoxManage on self.srvuuid, the snapshot name fixed
virtualbox_snapshot_plan(obj, op, name) ==
    IF op = "snapshot_create"
    THEN <<Step("tool", <<"VBoxManage", "snapshot", obj.srvuuid, "take", "fdroidclean">>)>>
    ELSE IF op = "snapshot_list"
    THEN <<Step("tool", <<"VBoxManage", "snapshot", obj.srvuuid, "list", "--details">>)>>
    ELSE <<Step("tool", <<"VBoxManage", "snapshot", obj.srvuuid, "restore", "fdroidclean">>)>>

snapshot_plan(obj, op, name) ==
    IF obj.provider = "libvirt" THEN libvirt_snapshot_plan(obj, op, name)
    ELSE virtualbox_snapshot_plan(obj, op, name)

\* the calls made when the failAt-th call of the plan fails (0: none fails)
RunPlan(plan, failAt) ==
    [i \in 1..(IF failAt = 0 THEN Len(plan) ELSE failAt) |->
        [cmd |-> plan[i].cmd, ok |-> i # failAt, via |-> plan[i].via]]

\* (mutant) the failure is logged and the operation returns
snapshot_swallow(t, c, op, cs, failAt) == Ok(t, op, c, NoValue, cs)

\* the except clause of each snapshot operation
snapshot_wrap(t, c, op, cs, failAt) ==
    Wrapped(t, op, c, "could not " \o op, ErrOf(cs[failAt]), NoValue, cs)

\* a command line built with srvuuid None raises TypeError before any tool runs
snapshot_result(t, c, op, name, failAt) ==
    LET obj == ctl[c]
        cs == RunPlan(snapshot_plan(obj, op, name), failAt)
    IN  IF obj.provider = "virtualbox" /\ obj.srvuuid = Null
        THEN Raw(t, op, c, [type |-> "TypeError", what |-> "srvuuid is None"], <<>>)
        ELSE IF failAt = 0 THEN Ok(t, op, c, NoValue, cs)
        ELSE snapshot_wrap(t, c, op, cs, failAt)

SnapshotOp(t, c, op, name, failAt) ==
    /\ ctl[c].state = "ready"
    /\ failAt <= Len(snapshot_plan(ctl[c], op, name))
    /\ Atomic(t, c, snapshot_result(t, c, op, name, failAt))

\* LibvirtBuildVm.snapshot_exists: the domain and then the snapshot are looked
\* up through the daemon; libvirtError (also: no such snapshot) gives False
libvirt_snapshot_exists(t, c, name, failAt) ==
    LET plan == <<Step("daemon", <<"lookupByName", ctl[c].srvname>>),
                  Step("daemon", <<"snapshotLookupByName", name>>)>>
    IN  Ok(t, "snapshot_exists", c, <<failAt = 0>>, RunPlan(plan, failAt))

\* VirtualboxBuildVm.snapshot_exists: str(name) in str(self.snapshot_list()),
\* FDroidBuildVmException gives False, anything else snapshot_list raises
\* passes through
virtualbox_snapshot_exists(t, c, name, failAt, found) ==
    LET listed == snapshot_result(t, c, "snapshot_list", name, failAt)
    IN  IF listed.kind = "ok"
        THEN Ok(t, "snapshot_exists", c, <<found>>, listed.calls)
        ELSE IF listed.kind = "FDroidBuildVmException"
        THEN Ok(t, "snapshot_exists", c, <<FALSE>>, listed.calls)
        ELSE [listed EXCEPT !.op = "snapshot_exists"]

snapshot_exists_result(t, c, name, failAt, found) ==
    IF ctl[c].provider = "libvirt" THEN libvirt_snapshot_exists(t, c, name, failAt)
    ELSE virtualbox_snapshot_exists(t, c, name, failAt, found)

SnapshotExists(t, c, name, failAt, found) ==
    /\ ctl[c].state = "ready"
    /\ failAt <= (IF ctl[c].provider = "libvirt" THEN 2 ELSE 1)
    /\ Atomic(t, c, snapshot_exists_result(t, c, name, failAt, found))

----------------------------------------------------------------------------
(* The snapshots the backends hold *)

\* the machine a controller's snapshot commands address: the libvirt domain
\* by its name, the virtualbox machine by its identifier
VmOf(obj) ==
    IF obj.provider = "libvirt" THEN <<"libvirt", obj.srvname>>
    ELSE <<"virtualbox", obj.srvuuid>>

\* snapshot names callers pass, and str(name) in pieces
KeyNames == {"fdroidclean", "clean", "s1"}
Text(n) == IF n = "fdroidclean" THEN <<"fdroid", "clean">> ELSE <<n>>
\* Python's `a in b` on strings
IsIn(a, b) ==
    \E i \in 1..Len(b) : i + Len(a) - 1 <= Len(b) /\ SubSeq(b, i, i + Len(a) - 1) = a

\* the snapshot name on the command line of an operation's last call
Addressed(r) == LET cmd == r.calls[Len(r.calls)].cmd IN cmd[Len(cmd)]
\* the names of the snapshots machine vm has
Held(vm) == {e.name : e \in {x \in snaps.store : x.vm = vm}}

\* an operation on the snapshots, from call to return
SnapRuns(t, c, r, store, name) ==
    /\ CanStart(t, c)
    /\ last' = r
    /\ snaps' = [store |-> store, asked |-> name]
    /\ nops' = nops + 1
    /\ UNCHANGED <<gcb, pool, wdir, which, boxes, fs, ctl, lock, pc, cur, exc, calls,
                   exited, hist>>

\* snapshot_create(name); virsh refuses a name the domain already has
SnapCreate(t, c, name, failAt) ==
    /\ ctl[c].state = "ready"
    /\ failAt <= 1
    /\ (ctl[c].provider = "libvirt" /\ name \in Held(VmOf(ctl[c]))) => failAt = 1
    /\ LET r == snapshot_result(t, c, "snapshot_create", name, failAt)
           taken == [name |-> Addressed(r), vm |-> VmOf(ctl[c]), by |-> name,
                     no |-> Cardinality(snaps.store) + 1]
       IN  SnapRuns(t, c, r,
                    IF r.kind = "ok" THEN snaps.store \cup {taken} ELSE snaps.store,
                    name)

\* snapshot_exists(name): libvirt looks the name up, virtualbox searches the
\* listing for it
SnapExists(t, c, name, failAt) ==
    /\ ctl[c].state = "ready"
    /\ LET held == Held(VmOf(ctl[c]))
           found == \E n \in held : IsIn(Text(name), Text(n))
       IN  /\ IF ctl[c].provider = "libvirt"
              THEN /\ failAt <= 2
                   /\ failAt = 0 => name \in held
                   /\ failAt = 2 => name \notin held
              ELSE failAt <= 1
           /\ SnapRuns(t, c, snapshot_exists_result(t, c, name, failAt, found),
                       snaps.store, name)

\* snapshot_revert(name): it succeeds when the machine has the snapshot its
\* last call names
SnapRevert(t, c, name, failAt) ==
    /\ ctl[c].state = "ready"
    /\ LET plan == snapshot_plan(ctl[c], "snapshot_revert", name)
           target == plan[Len(plan)].cmd[Len(plan[Len(plan)].cmd)]
           held == Held(VmOf(ctl[c]))
       IN  /\ failAt <= Len(plan)
           /\ failAt = 0 => target \in held
           /\ (target \notin held /\ Len(plan) > 1) => failAt < Len(plan)
           /\ SnapRuns(t, c, snapshot_result(t, c, "snapshot_revert", name, failAt),
                       snaps.store, name)

----------------------------------------------------------------------------
(* FDroidBuildVm.box_add and LibvirtBuildVm.box_add *)

MaxBoxOps == 2
CanStartBox(t, c) ==
    /\ ~exited
    /\ pc[t] = "idle"
    /\ ctl[c].state = "ready"
    /\ nops < MaxBoxOps

BoxNames == {"buildserver"}
BoxImg(boxname) == boxname \o "_vagrant_box_image_0.img"
VolDeleteCmd(vol) == <<"virsh", "-c", "qemu:///system", "vol-delete", "--pool", "default", vol>>
BoxAddCmd(boxname, force) ==
    <<"vagrant", "box", "add", boxname>> \o (IF force THEN <<"--force">> ELSE <<>>)

\* LibvirtBuildVm.box_add before it calls the base class: with force the
\* box's image is deleted from the storage pool, a failure only logged
box_add_prelude(obj, boxname, force, delOk) ==
    IF obj.provider = "libvirt" /\ force
    THEN <<Call(VolDeleteCmd(BoxImg(boxname)), delOk)>>
    ELSE <<>>

\* FDroidBuildVm.box_add: the file is looked at, then vagrant adds the box;
\* cs are the calls made before
box_add_result(t, c, boxname, force, exists, addOk, cs, given) ==
    IF ~exists
    THEN Wrapped(t, "box_add", c, "supplied boxfile does not exist", NoErr, given, cs)
    ELSE IF addOk
    THEN Ok(t, "box_add", c, given, Append(cs, Call(BoxAddCmd(boxname, force), TRUE)))
    ELSE [Raw(t, "box_add", c, ToolErr(BoxAddCmd(boxname, force)),
              Append(cs, Call(BoxAddCmd(boxname, force), FALSE)))
            EXCEPT !.value = given]

\* the value field of a box_add result holds the call's inputs: whether the
\* box file exists, force, and the pool as it was at the call
BoxAdd(t, c, boxname, force, exists, delOk, addOk) ==
    /\ CanStartBox(t, c)
    /\ delOk => BoxImg(boxname) \in pool
    /\ LET cs == box_add_prelude(ctl[c], boxname, force, delOk)
           r == box_add_result(t, c, boxname, force, exists, addOk, cs,
                               <<exists, force, pool>>)
       IN  /\ last' = r
           /\ pool' = IF cs # <<>> /\ delOk THEN pool \ {BoxImg(boxname)} ELSE pool
           /\ boxes' = IF r.kind = "ok"
                       THEN [boxes EXCEPT !.list = @ \cup
                               {[name |-> boxname, provider |-> ctl[c].provider]}]
                       ELSE boxes
    /\ nops' = nops + 1
    /\ UNCHANGED <<snaps, gcb, wdir, which, fs, ctl, lock, pc, cur, exc, calls, exited, hist>>

----------------------------------------------------------------------------
(* LibvirtBuildVm.package *)

GiB == 1073741824
\* the significand of a Python float (IEEE 754 binary64)
MantissaBits == 53

\* a size in bytes, gib * 2^30 + rest with rest < 2^30
Bytes(gib, rest) == [gib |-> gib, rest |-> rest]
Sizes == {Bytes(1, 0), Bytes(1, 1), Bytes(8388607, 1), Bytes(8388608, 1),
          Bytes(8388608, 3)}

RECURSIVE bit_length(_)
bit_length(n) == IF n = 0 THEN 0 ELSE 1 + bit_length(n \div 2)

RECURSIVE pow2(_)
pow2(k) == IF k = 0 THEN 1 ELSE 2 * pow2(k - 1)

\* the int -> float conversion of `img_info['virtual-size'] / (1024. ** 3)`:
\* the nearest value with a 53 bit significand, ties to the even one
to_float(b) ==
    LET len == IF b.gib = 0 THEN bit_length(b.rest) ELSE bit_length(b.gib) + 30
    IN  IF len <= MantissaBits THEN b
        ELSE LET ulp == pow2(len - MantissaBits)
                 m == b.rest \div ulp
                 rem == b.rest % ulp
                 up == (2 * rem > ulp) \/ (2 * rem = ulp /\ m % 2 = 1)
                 rest == (IF up THEN m + 1 ELSE m) * ulp
             IN  IF rest = GiB THEN Bytes(b.gib + 1, 0) ELSE Bytes(b.gib, rest)

\* math.ceil(x / (1024. ** 3)): the division by 2^30 is exact on floats
virtual_size(b) ==
    LET f == to_float(b) IN f.gib + (IF f.rest > 0 THEN 1 ELSE 0)

Intermediate == {"metadata.json", "Vagrantfile", "box.img"}
Stale == [stale |-> TRUE]
Leftovers == {[n \in files |-> Stale] : files \in {{}, {"box.img"}, Intermediate}}
DomainVol(obj) == obj.srvname \o ".img"

Without(w, names) == [n \in (DOMAIN w) \ names |-> w[n]]
With(w, n, content) == [x \in (DOMAIN w) \cup {n} |-> IF x = n THEN content ELSE w[x]]

\* `if not output: output = "buildserver.box"`
output_name(output) == IF output = Null THEN "buildserver.box" ELSE output

metadata_json(size) ==
    [provider |-> "libvirt", virtual_size |-> virtual_size(size), format |-> "qcow2"]
box_vagrantfile == [cpus |-> "domainInfo[3]", memory |-> "domainInfo[1] / 1024"]
box_img(obj) == [image |-> DomainVol(obj)]

\* the steps of package() that can fail, in the order the code takes them
PackageSteps == <<"pool", "domain", "vol", "chmod", "copy", "rebase", "info", "archive">>
StepNo(step) == CHOOSE i \in DOMAIN PackageSteps : PackageSteps[i] = step
\* step `step` ended without error in a run that failed at `fail` ("none": nowhere)
Passed(step, fail) == fail = "none" \/ StepNo(step) < StepNo(fail)

PackageCall(obj, output, step, ok) ==
    IF step = "pool" THEN [cmd |-> <<"storagePoolLookupByName", "default">>, ok |-> ok, via |-> "daemon"]
    ELSE IF step = "domain" THEN [cmd |-> <<"lookupByName", obj.srvname>>, ok |-> ok, via |-> "daemon"]
    ELSE IF step = "vol" THEN [cmd |-> <<"storageVolLookupByName", DomainVol(obj)>>, ok |-> ok, via |-> "daemon"]
    ELSE IF step = "chmod"
    THEN Call(<<"sudo", "/bin/chmod", "-R", "a+rX", "/var/lib/libvirt/images">>, ok)
    ELSE IF step = "copy" THEN [cmd |-> <<"shutil.copy2", "box.img">>, ok |-> ok, via |-> "file"]
    ELSE IF step = "rebase" THEN Call(<<"qemu-img", "rebase", "-p", "-b", "", "box.img">>, ok)
    ELSE IF step = "info" THEN Call(<<"qemu-img", "info", "--output=json", "box.img">>, ok)
    ELSE [cmd |-> <<"tar", output_name(output)>>, ok |-> ok, via |-> "file"]

\* the exception a failed step of package() raises; none of them is caught
PackageErr(call) ==
    IF call.via = "file" THEN [type |-> "OSError", what |-> call.cmd] ELSE ErrOf(call)

\* the steps a run takes: all up to the failing one; the pool found or not
\* (`if storagePool:`), the image readable or not
package_steps(found, readable, fail) ==
    SelectSeq(PackageSteps,
              LAMBDA st : /\ fail = "none" \/ StepNo(st) <= StepNo(fail)
                          /\ StepNo(st) > 2 => found
                          /\ st = "chmod" => ~readable)

\* the working directory package() leaves behind
package_files(obj, w, output, keep, found, fail, size) ==
    LET cleared == Without(w, Intermediate)
        copied == With(cleared, "box.img", box_img(obj))
        written == With(With(copied, "metadata.json", metadata_json(size)),
                        "Vagrantfile", box_vagrantfile)
        entries == [n \in Intermediate |-> written[n]]
        packed == With(written, output_name(output), [entries |-> entries])
    IN  IF ~found \/ ~Passed("domain", fail) THEN w
        ELSE IF ~Passed("copy", fail) THEN cleared
        ELSE IF ~Passed("info", fail) THEN copied
        ELSE IF fail = "archive" THEN With(written, output_name(output), [entries |-> <<>>])
        ELSE IF keep THEN packed
        ELSE Without(packed, Intermediate)

\* the value field of a package result holds the call's inputs and the
\* working directory as it was at the call
package_result(t, c, output, keep, found, readable, fail, size) ==
    LET obj == ctl[c]
        steps == package_steps(found, readable, fail)
        cs == [i \in DOMAIN steps |->
                  PackageCall(obj, output, steps[i], steps[i] # fail)]
        given == [found |-> found, output |-> output, size |-> size, fail |-> fail,
                  keep |-> keep, before |-> wdir]
    IN  IF fail = "none" THEN Ok(t, "package", c, given, cs)
        ELSE [Raw(t, "package", c, PackageErr(cs[Len(cs)]), cs) EXCEPT !.value = given]

\* inputs a run does not get to read are left at their defaults
Unread(output, keep, found, readable, fail, size) ==
    /\ ~(found /\ Passed("vol", fail)) => readable
    /\ ~(found /\ Passed("rebase", fail)) => size = Bytes(1, 0)
    /\ ~(found /\ Passed("info", fail)) => output = Null
    /\ ~(found /\ fail = "none") => ~keep

Package(t, c, output, keep, found, readable, fail, size) ==
    /\ CanStartBox(t, c)
    /\ ctl[c].provider = "libvirt"
    /\ Unread(output, keep, found, readable, fail, size)
    /\ fail \in {"none"} \cup {PackageSteps[i] : i \in DOMAIN PackageSteps}
    \* only a step that is taken can fail
    /\ fail # "none" => fail \in {package_steps(found, readable, fail)[i] :
                                    i \in DOMAIN package_steps(found, readable, fail)}
    \* the volume is found exactly when the pool holds it
    /\ (found /\ Passed("domain", fail)) => ((fail = "vol") = (DomainVol(ctl[c]) \notin pool))
    /\ last' = package_result(t, c, output, keep, found, readable, fail, size)
    /\ wdir' = package_files(ctl[c], wdir, output, keep, found, fail, size)
    /\ nops' = nops + 1
    /\ UNCHANGED <<snaps, gcb, pool, which, boxes, fs, ctl, lock, pc, cur, exc, calls, exited, hist>>

----------------------------------------------------------------------------
(* get_clean_builder(serverdir) *)

\* the directory the process runs in, and the directories a caller passes
Cwd == <<"srv">>
ServerDirs == {<<"srv", "builder">>, <<"srv", "other">>}
\* os.path.join('builder', 'Vagrantfile'), a relative path: the directory
\* the default Vagrantfile is opened in
DefaultVagrantfileDir == Cwd \o <<"builder">>
\* the one caller and the one controller of a get_clean_builder run
GcbThread == "t1"
GcbCtl == "c1"

EmptyDir == [isdir |-> TRUE, vagrantfile |-> FALSE, dot |-> DotNone]

\* the first part of get_clean_builder: the directory is made when it is
\* missing, and a default Vagrantfile is written when serverdir has none;
\* mkOk: os.makedirs succeeds
gcb_prepare(fsys, d, mkOk) ==
    LET made == IF fsys[d].isdir THEN fsys ELSE [fsys EXCEPT ![d] = EmptyDir]
    IN  IF ~fsys[d].isdir /\ ~mkOk
        THEN [raised |-> [type |-> "PermissionError", what |-> d], fsys |-> fsys]
        ELSE IF made[d].vagrantfile
        THEN [raised |-> NoErr, fsys |-> made]
        ELSE IF made[DefaultVagrantfileDir].isdir
        THEN [raised |-> NoErr,
              fsys |-> [made EXCEPT ![DefaultVagrantfileDir].vagrantfile = TRUE]]
        ELSE [raised |-> [type |-> "FileNotFoundError",
                          what |-> DefaultVagrantfileDir \o <<"Vagrantfile">>],
              fsys |-> made]

\* the start and stop tool calls an operation made
StartStopCmds == {UpCmd(p) : p \in Providers} \cup {HaltCmd}
ToolCalls(r) == Cardinality({i \in DOMAIN r.calls : r.calls[i].cmd \in StartStopCmds})

\* what get_clean_builder keeps of an operation it called
Logged(r) == [op |-> r.op, kind |-> r.kind, tools |-> ToolCalls(r)]
ErrorOf(r) == [type |-> r.kind, what |-> r.what]

\* get_clean_builder goes on at `to` when the operation returned, and ends
\* with the operation's exception when it raised
GcbAfter(r, to) ==
    gcb' = [gcb EXCEPT !.log = Append(@, Logged(r)),
                       !.at = IF r.kind = "ok" THEN to ELSE "raised",
                       !.raised = IF r.kind = "ok" THEN NoErr ELSE ErrorOf(r)]

GcbCall(d, mkOk) ==
    /\ gcb.at = "idle"
    /\ ~exited
    /\ fs[d].isdir => mkOk
    /\ LET p == gcb_prepare(fs, d, mkOk)
       IN  /\ fs' = p.fsys
           /\ gcb' = [gcb EXCEPT !.serverdir = d,
                                 !.at = IF p.raised = NoErr THEN "get_build_vm"
                                        ELSE "raised",
                                 !.raised = p.raised]
    /\ Silent
    /\ UNCHANGED <<snaps, pool, wdir, which, boxes, ctl, lock, pc, cur, exc, calls, exited,
                   nops, hist>>

\* vm = get_build_vm(serverdir)
GcbGetBuildVm(connOk) ==
    /\ gcb.at = "get_build_vm"
    /\ Selecting(GcbThread, GcbCtl, gcb.serverdir, "None", connOk)
    /\ gcb' = [gcb EXCEPT !.at = IF last'.kind = "ok" THEN "destroy"
                                 ELSE IF last'.kind = "exit" THEN "exited"
                                 ELSE "raised",
                          !.raised = IF last'.kind \in {"ok", "exit"} THEN NoErr
                                     ELSE ErrorOf(last')]

\* a controller operation get_clean_builder calls, from its call to its
\* return: what it does to the managed directory and to the object
GcbRuns(r, fsd, obj) ==
    /\ last' = r
    /\ fs' = [fs EXCEPT ![ctl[GcbCtl].srvdir] = fsd]
    /\ ctl' = [ctl EXCEPT ![GcbCtl] = obj]
    /\ UNCHANGED <<snaps, pool, wdir, which, boxes, lock, pc, cur, exc, calls, exited, nops,
                   hist>>

\* vm.destroy(); oks[i] is the outcome of the i-th step of destroy()
GcbDestroy(oks) ==
    /\ gcb.at = "destroy"
    /\ LET obj == ctl[GcbCtl]
           plan == destroy_plan(obj)
           f0 == fs[obj.srvdir]
           f1 == IF oks[1] THEN vagrant_destroy_effect(f0) ELSE f0
           f2 == IF oks[2] THEN [f1 EXCEPT !.dot = DotNone] ELSE f1
           r == destroy_tail(GcbThread, GcbCtl,
                             <<Call(plan[1], oks[1]), Call(plan[2], oks[2])>>, oks)
       IN  /\ oks[1] => vagrant_can_run(f0)
           /\ oks[2] => f1.dot.kind = "dir"
           /\ \A i \in DOMAIN oks : i > Len(plan) => oks[i]
           /\ GcbRuns(r, f2, obj)
           /\ GcbAfter(r, "up")

\* vm.up(), the first and the second time
GcbUp(ok, newid, st) ==
    /\ gcb.at \in {"up", "up again"}
    /\ ok => st = "entry"
    /\ LET obj == ctl[GcbCtl]
           p == obj.provider
           f0 == fs[obj.srvdir]
           f1 == vagrant_up_effect(f0, p, newid)
           f == vagrant_fetch_uuid(f1, p)
           cs == <<Call(UpCmd(p), ok)>>
           r == IF ~ok THEN up_failure(GcbThread, GcbCtl, ToolErr(UpCmd(p)), st, cs)
                ELSE IF f.err = "none" THEN Ok(GcbThread, "up", GcbCtl, NoValue, cs)
                ELSE Raw(GcbThread, "up", GcbCtl, [type |-> f.err, what |-> ".vagrant"],
                         cs)
       IN  /\ ok => vagrant_can_run(f0)
           /\ GcbRuns(r, IF ok THEN f1 ELSE f0,
                      IF ok /\ f.err = "none" THEN refresh(obj, f.val) ELSE obj)
           /\ GcbAfter(r, IF gcb.at = "up" THEN "sshinfo" ELSE "sshinfo again")

\* how a call of sshinfo() ends: the tool fails, or the configuration it
\* printed lacks an entry the dictionary is built from, or neither
SshOutcomes == {"ok", "fail", "nokey"}
gcb_sshinfo(out, parsed) ==
    IF out = "nokey"
    THEN Raw(GcbThread, "sshinfo", GcbCtl, [type |-> "KeyError", what |-> "identityfile"],
             <<Call(SshConfigCmd, TRUE)>>)
    ELSE sshinfo_result(GcbThread, GcbCtl, out = "ok", parsed)

\* (mutant) the workaround is tried again when its own sshinfo() fails
gcb_retries_always(at, kind) == kind = "FDroidBuildVmException"

\* except FDroidBuildVmException: around the first sshinfo() only
gcb_retries(at, kind) == at = "sshinfo" /\ kind = "FDroidBuildVmException"

\* sshinfo = vm.sshinfo(), the first and the second time
GcbSshinfo(out, parsed) ==
    /\ gcb.at \in {"sshinfo", "sshinfo again"}
    /\ LET r == gcb_sshinfo(out, parsed)
       IN  /\ GcbRuns(r, fs[ctl[GcbCtl].srvdir], ctl[GcbCtl])
           /\ IF gcb_retries(gcb.at, r.kind)
              THEN gcb' = [gcb EXCEPT !.log = Append(@, Logged(r)), !.at = "halt"]
              ELSE GcbAfter(r, "returned")

\* vm.halt() of the workaround
GcbHalt(ok) ==
    /\ gcb.at = "halt"
    /\ LET r == halt_result(GcbThread, GcbCtl, ok)
       IN  /\ GcbRuns(r, fs[ctl[GcbCtl].srvdir], ctl[GcbCtl])
           /\ GcbAfter(r, "up again")

----------------------------------------------------------------------------
(* The specifications *)

\* the selector is a function of its inputs: one caller, one controller slot
NextSel ==
    \E d \in Dirs, provider \in ProviderArgs, connOk \in BOOLEAN :
        GetBuildVm("t1", "c1", d, provider, connOk)

SpecSel == InitSel /\ [][NextSel]_vars

\* up, suspend, halt and destroy, step by step, as thread t runs them
Life(t) ==
    \/ \E c \in Ctls : UpCall(t, c)
    \/ UpAcquire(t)
    \/ \E ok \in BOOLEAN, newid \in NewIds : UpStart(t, ok, newid)
    \/ UpFetch(t)
    \/ \E st \in {"entry", "empty", "fail"} : UpStatus(t, st)
    \/ \E c \in Ctls : SuspendCall(t, c)
    \/ SuspendAcquire(t)
    \/ \E ok \in BOOLEAN : SuspendRun(t, ok)
    \/ \E c \in Ctls : HaltCall(t, c)
    \/ HaltAcquire(t)
    \/ \E ok \in BOOLEAN : HaltRun(t, ok)
    \/ \E c \in Ctls : DestroyCall(t, c)
    \/ \E ok \in BOOLEAN : DVagrant(t, ok)
    \/ \E ok \in BOOLEAN : DRmtree(t, ok)
    \/ \E oks \in [3..5 -> BOOLEAN] : DTail(t, oks)

\* the operations that run from call to return without touching the lock or
\* the managed directory
Quick(t) ==
    \/ \E c \in Ctls, ok \in BOOLEAN, parsed \in IdfileShapes :
          Sshinfo(t, c, ok, parsed)
    \/ \E c \in Ctls, op \in SnapOps, name \in SnapNames, failAt \in 0..3 :
          SnapshotOp(t, c, op, name, failAt)
    \/ \E c \in Ctls, name \in SnapNames, failAt \in 0..2, found \in BOOLEAN :
          SnapshotExists(t, c, name, failAt, found)

\* what thread t does by itself once it has called up, suspend or halt: it
\* takes the lock when it is free, and each tool call it makes returns
LockedStep(t) ==
    \/ UpAcquire(t)
    \/ \E ok \in BOOLEAN, newid \in NewIds : UpStart(t, ok, newid)
    \/ UpFetch(t)
    \/ \E st \in {"entry", "empty", "fail"} : UpStatus(t, st)
    \/ SuspendAcquire(t)
    \/ \E ok \in BOOLEAN : SuspendRun(t, ok)
    \/ HaltAcquire(t)
    \/ \E ok \in BOOLEAN : HaltRun(t, ok)

\* the three operations under the lock, as thread t runs them
Locked(t) ==
    \/ \E c \in Ctls : UpCall(t, c)
    \/ \E c \in Ctls : SuspendCall(t, c)
    \/ \E c \in Ctls : HaltCall(t, c)
    \/ LockedStep(t)

\* the threads of one process driving the controllers concurrently
Next == \E t \in Threads : Life(t)

Spec == Init /\ [][Next]_vars

\* one caller driving the controllers through every operation
NextOps == Life("t1") \/ Quick("t1")

SpecOps == Init /\ [][NextOps]_vars

\* a libvirt and a virtualbox controller, the storage pool and the working
\* directory in the states earlier runs can have left them in
InitBox ==
    /\ which = {}
    /\ boxes = [ok |-> TRUE, list |-> {}]
    /\ fs = [d \in Dirs |-> [isdir |-> TRUE, vagrantfile |-> TRUE, dot |-> DotNone]]
    /\ \E d \in Dirs :
          ctl = [c \in Ctls |->
                   BackendInit(IF c = "c1" THEN "libvirt" ELSE "virtualbox",
                               fs[d], d, TRUE).obj]
    /\ hist = [NoHist EXCEPT !.born = [c \in Ctls |-> TRUE]]
    /\ ThreadsIdle
    /\ pool \in SUBSET ({BoxImg(b) : b \in BoxNames} \cup {DomainVol(ctl[c]) : c \in Ctls})
    /\ wdir \in Leftovers
    /\ gcb = GcbIdle
    /\ snaps = NoSnaps

\* one caller adding boxes and packaging
NextBox ==
    \/ \E c \in Ctls, b \in BoxNames, force, exists, delOk, addOk \in BOOLEAN :
          BoxAdd("t1", c, b, force, exists, delOk, addOk)
    \/ \E c \in Ctls, output \in {Null, "custom.box"}, keep, found, readable \in BOOLEAN,
          fail \in {"none", "pool", "domain", "vol", "chmod", "copy", "rebase",
                    "info", "archive"}, size \in Sizes :
          Package("t1", c, output, keep, found, readable, fail, size)

SpecBox == InitBox /\ [][NextBox]_vars

\* threads contending for the lock, every tool call returning in the end
NextLock == \E t \in Threads : Locked(t)

SpecLock == Init /\ [][NextLock]_vars /\ \A t \in Threads : WF_vars(LockedStep(t))

\* what thread t does by itself once it has called destroy
FreeStep(t) ==
    \/ \E ok \in BOOLEAN : DVagrant(t, ok)
    \/ \E ok \in BOOLEAN : DRmtree(t, ok)
    \/ \E oks \in [3..5 -> BOOLEAN] : DTail(t, oks)

\* the operations outside the lock, as thread t runs them
Free(t) ==
    \/ \E c \in Ctls : DestroyCall(t, c)
    \/ FreeStep(t)
    \/ \E c \in Ctls, ok \in BOOLEAN :
          Sshinfo(t, c, ok, [islist |-> FALSE, items |-> <<(<<"k">>)>>])
    \/ \E c \in Ctls, op \in SnapOps, failAt \in 0..1 :
          SnapshotOp(t, c, op, "s1", failAt)
    \/ \E c \in Ctls, found \in BOOLEAN : SnapshotExists(t, c, "s1", 0, found)
    \/ \E c \in Ctls, b \in BoxNames, force, addOk \in BOOLEAN :
          BoxAdd(t, c, b, force, TRUE, FALSE, addOk)

\* one thread in up, suspend and halt, which may stay in its tool call for
\* ever, and another in the operations outside the lock
NextFree == Locked("t1") \/ Free("t2")

\* a libvirt and a virtualbox controller over the same directory
InitFree ==
    /\ Init
    /\ ctl["c1"].provider = "libvirt"
    /\ ctl["c2"].provider = "virtualbox"

SpecFree == InitFree /\ [][NextFree]_vars /\ WF_vars(FreeStep("t2"))

\* one caller creating, looking up and reverting snapshots on both backends
NextSnap ==
    \/ \E c \in Ctls, name \in KeyNames, failAt \in 0..1 : SnapCreate("t1", c, name, failAt)
    \/ \E c \in Ctls, name \in KeyNames, failAt \in 0..2 : SnapExists("t1", c, name, failAt)
    \/ \E c \in Ctls, name \in KeyNames, failAt \in 0..3 : SnapRevert("t1", c, name, failAt)

SpecSnap == InitFree /\ [][NextSnap]_vars

\* get_clean_builder called once, over every state of the two directories
InitClean ==
    /\ which \in {{"kvm"}, {"VBoxHeadless"}}
    /\ boxes = [ok |-> TRUE, list |-> {}]
    /\ fs \in [ServerDirs -> {[isdir |-> FALSE, vagrantfile |-> FALSE, dot |-> DotNone],
                              EmptyDir} \cup LifeInitFs]
    /\ ctl = [c \in Ctls |-> NoController]
    /\ hist = NoHist
    /\ ThreadsIdle
    /\ Untouched

NextClean ==
    \/ \E d \in ServerDirs, mkOk \in BOOLEAN : GcbCall(d, mkOk)
    \/ \E connOk \in BOOLEAN : GcbGetBuildVm(connOk)
    \/ \E oks \in [1..5 -> BOOLEAN] : GcbDestroy(oks)
    \/ \E ok \in BOOLEAN, newid \in NewIds, st \in {"entry", "empty", "fail"} :
          GcbUp(ok, newid, st)
    \/ \E out \in SshOutcomes, parsed \in IdfileShapes : GcbSshinfo(out, parsed)
    \/ \E ok \in BOOLEAN : GcbHalt(ok)

SpecClean == InitClean /\ [][NextClean]_vars

----------------------------------------------------------------------------
(* The provider selector: C1, C2, C3 *)

\* the six inputs of the selector, read off the environment
KvmTool == \E e \in {"kvm", "qemu", "qemu-kvm"} : e \in which
VboxTool == "VBoxHeadless" \in which
MachineDir(d, p) ==
    /\ fs[d].dot.kind = "dir"
    /\ fs[d].dot.machines[p].isdir
    /\ DOMAIN fs[d].dot.machines[p].files # {}
BuildserverBox(p) == [name |-> "buildserver", provider |-> p] \in boxes.list

\* what the stated priority makes of the six inputs: a backend, "none" when no
\* signal fires, "unknown" when the boxes would decide and the query for them
\* fails
Prescribed(d) ==
    IF KvmTool /\ ~VboxTool THEN "libvirt"
    ELSE IF VboxTool /\ ~KvmTool THEN "virtualbox"
    ELSE IF MachineDir(d, "virtualbox") THEN "virtualbox"
    ELSE IF MachineDir(d, "libvirt") THEN "libvirt"
    ELSE IF ~boxes.ok THEN "unknown"
    ELSE IF BuildserverBox("virtualbox") THEN "virtualbox"
    ELSE IF BuildserverBox("libvirt") THEN "libvirt"
    ELSE "none"

Selected == last.op = "get_build_vm"
NoProviderGiven == last.sel.arg \in {"None", ""}

\* C1: with no explicit provider the backend get_build_vm chooses is the one
\* the priority installed tool > machine subtree > available box prescribes
\* for the six inputs, ties of subtrees and of boxes going to virtualbox.
C1_Priority ==
    (Selected /\ NoProviderGiven /\ Prescribed(last.sel.over) \in Providers)
        => last.sel.backend = Prescribed(last.sel.over)

\* a call where the three levels disagree: only the KVM tool is installed,
\* while the directory and the boxes speak for virtualbox alone
C1_Witness ==
    /\ Selected /\ NoProviderGiven
    /\ KvmTool /\ ~VboxTool
    /\ MachineDir(last.sel.over, "virtualbox")
    /\ ~MachineDir(last.sel.over, "libvirt")
    /\ boxes.ok /\ BuildserverBox("virtualbox") /\ ~BuildserverBox("libvirt")
    /\ last.sel.backend = "libvirt"

\* C2: an explicit provider 'libvirt' or 'virtualbox' is the backend, chosen
\* without any probe (tools, directory, boxes); any other non-empty provider
\* leaves the choice as it is with no provider given.
C2_Explicit ==
    Selected =>
        /\ last.sel.arg \in Providers
              => /\ last.sel.backend = last.sel.arg
                 /\ last.sel.probed = {}
                 /\ last.calls = <<>>
        /\ (last.sel.arg \notin Providers /\ ~NoProviderGiven)
              => /\ Prescribed(last.sel.over) \in Providers
                    => last.sel.backend = Prescribed(last.sel.over)
                 /\ Prescribed(last.sel.over) = "none"
                    => last.sel.backend = "exit"

\* an explicit 'libvirt' against an environment that speaks for virtualbox
C2_Witness ==
    /\ Selected
    /\ last.sel.arg = "libvirt"
    /\ VboxTool /\ ~KvmTool
    /\ last.sel.backend = "libvirt"

\* the inputs on which no provider can be determined
NoSignal(d) ==
    /\ last.sel.arg \notin Providers
    /\ KvmTool = VboxTool
    /\ ~MachineDir(d, "libvirt") /\ ~MachineDir(d, "virtualbox")
    /\ boxes.ok /\ ~BuildserverBox("libvirt") /\ ~BuildserverBox("virtualbox")

\* C3: get_build_vm ends the process, with a non-zero status, exactly when no
\* recognised provider is given, the tools are ambiguous, no machine subtree
\* is non-empty and no buildserver box exists; on every other input it
\* selects a backend and the process goes on.
C3_ExitExactly ==
    Selected =>
        /\ (last.kind = "exit") = NoSignal(last.sel.over)
        /\ exited = NoSignal(last.sel.over)
        /\ last.kind = "exit" => last.value # <<0>>
        /\ (~NoSignal(last.sel.over) /\ Prescribed(last.sel.over) # "unknown")
              => last.sel.backend \in Providers

\* the process has ended in the selector, called with an unrecognised provider
C3_Witness ==
    /\ Selected
    /\ last.sel.arg = "vmware"
    /\ last.kind = "exit"
    /\ exited

----------------------------------------------------------------------------
(* Construction: C4, C5 *)

LacksVagrantfile(d) == ~fs[d].isdir \/ ~fs[d].vagrantfile

\* C4: over a directory that does not exist or holds no Vagrantfile, whatever
\* its .vagrant holds, constructing a controller of either backend ends in
\* FDroidBuildVmException with no handle opened and no tool run.
C4_ConfigError ==
    (Selected /\ last.sel.arg \in Providers /\ LacksVagrantfile(last.sel.over))
        => /\ last.kind = "FDroidBuildVmException"
           /\ last.opened = {}
           /\ last.calls = <<>>

StateFileId(d) == fs[d].dot.text.val.active.default
IdFile(d, p) ==
    /\ fs[d].dot.kind = "dir"
    /\ fs[d].dot.machines[p].isdir
    /\ "id" \in DOMAIN fs[d].dot.machines[p].files

\* the identifier the two state formats prescribe for provider p
Recovered(d, p) ==
    IF fs[d].dot.kind = "file" THEN StateFileId(d)
    ELSE IF IdFile(d, p) THEN fs[d].dot.machines[p].files["id"]
    ELSE Null

\* C5: the identifier a controller recovers is active.default of the JSON
\* when .vagrant is a regular file, else the contents of the id file of its
\* own provider, else null (also when only the other provider left an id
\* file); recovering it changes nothing in the directory.
C5_FetchUuid ==
    /\ [](\A c \in Ctls : ctl[c].state = "ready"
            => ctl[c].srvuuid = Recovered(ctl[c].srvdir, ctl[c].provider))
    /\ [][fs' = fs]_vars

\* a libvirt controller built over a directory where only virtualbox left
\* an id file: its identifier is null
C5_Witness ==
    \E c \in Ctls :
        /\ ctl[c].state = "ready"
        /\ ctl[c].provider = "libvirt"
        /\ IdFile(ctl[c].srvdir, "virtualbox")
        /\ ~IdFile(ctl[c].srvdir, "libvirt")
        /\ ctl[c].srvuuid = Null

----------------------------------------------------------------------------
(* The identifier over a controller's life: C6 *)

\* C6 as stated: a controller built over neither state form has a null
\* identifier and vagrant_uuid_okay() false until an up() returns without
\* error, and from then on vagrant_uuid_okay() is true.
C6_UuidOkay ==
    \A c \in Ctls :
        /\ (hist.born[c] /\ ~hist.upOk[c])
              => (ctl[c].srvuuid = Null /\ ~vagrant_uuid_okay(ctl[c]))
        /\ hist.upOk[c] => vagrant_uuid_okay(ctl[c])

\* C6, amended: the same, for controllers none of whose up() calls had the
\* .vagrant state of its directory changed by a destroy() between its start
\* call and its identifier refresh.
C6_UuidOkayUndisturbed ==
    \A c \in Ctls :
        /\ (hist.born[c] /\ ~hist.upOk[c])
              => (ctl[c].srvuuid = Null /\ ~vagrant_uuid_okay(ctl[c]))
        /\ (hist.upOk[c] /\ ~hist.raced[c]) => vagrant_uuid_okay(ctl[c])

\* a controller built over neither state form whose up() has just returned
\* without error, undisturbed, and which now holds an identifier
C6_Witness ==
    /\ last.op = "up" /\ last.kind = "ok"
    /\ hist.born[last.c] /\ hist.upOk[last.c] /\ ~hist.raced[last.c]
    /\ vagrant_uuid_okay(ctl[last.c])

----------------------------------------------------------------------------
(* destroy(): C7 *)

\* the command lines of the calls an operation made, in the order made
CmdsOf(r) == [i \in DOMAIN r.calls |-> r.calls[i].cmd]
VirshVerb(cmd) == cmd[4]

\* C7: destroy() returns normally whichever of its steps fail, having run
\* vagrant destroy, the removal of .vagrant and the prune, and on libvirt
\* then virsh destroy and virsh undefine, each once and in this order.
C7_DestroyTolerant ==
    last.op = "destroy" =>
        /\ last.kind = "ok"
        /\ Len(last.calls) = (IF ctl[last.c].provider = "libvirt" THEN 5 ELSE 3)
        /\ CmdsOf(last)[1] = <<"vagrant", "destroy">>
        /\ CmdsOf(last)[2] = <<"shutil.rmtree", ".vagrant">>
        /\ CmdsOf(last)[3] = <<"vagrant", "global-status", "--prune">>
        /\ ctl[last.c].provider = "libvirt"
              => /\ CmdsOf(last)[4][1] = "virsh"
                 /\ VirshVerb(CmdsOf(last)[4]) = "destroy"
                 /\ CmdsOf(last)[5][1] = "virsh"
                 /\ VirshVerb(CmdsOf(last)[5]) = "undefine"

\* a libvirt destroy() that returned after every one of its five steps failed
C7_Witness ==
    /\ last.op = "destroy"
    /\ last.kind = "ok"
    /\ Len(last.calls) = 5
    /\ \A i \in 1..5 : ~last.calls[i].ok

----------------------------------------------------------------------------
(* The lock: C8 *)

\* thread t is at the backend call of up(), halt() or suspend(), or in what
\* up() does after it and before it leaves the `with lock:` block
AtBackendCall(t) ==
    pc[t] \in {"up_start", "up_fetch", "up_status", "suspend_run", "halt_run"}

\* C8: at most one thread at a time is at the backend call of up(), halt()
\* or suspend(), whichever controllers the threads work on.
C8_MutualExclusion ==
    \A t1, t2 \in Threads : (AtBackendCall(t1) /\ AtBackendCall(t2)) => t1 = t2

\* one thread is at the backend call of up() while another waits to enter
\* halt() on a different controller
C8_Witness ==
    \E t1, t2 \in Threads :
        /\ pc[t1] = "up_start"
        /\ pc[t2] = "halt_wait"
        /\ cur[t1] # cur[t2]

----------------------------------------------------------------------------
(* Failures of the tools: C9, C10 *)

StartFailed == last.op = "up" /\ Len(last.calls) >= 1 /\ ~last.calls[1].ok

\* C9: when the start tool fails in up(), up() raises FDroidBuildVmException
\* whose cause is the start tool's error, whether the status query gives an
\* entry, gives none or fails.
C9_UpFailure ==
    StartFailed =>
        /\ last.kind = "FDroidBuildVmException"
        /\ last.cause = ErrOf(last.calls[1])
        /\ last.cause.type = "CalledProcessError"
        /\ Len(last.calls) = 2

\* an up() whose start tool failed and whose status query failed as well
C9_Witness ==
    /\ StartFailed
    /\ Len(last.calls) = 2 /\ ~last.calls[2].ok
    /\ last.kind = "FDroidBuildVmException"
    /\ last.cause = ErrOf(last.calls[1])

WrappingOps == {"up", "suspend", "sshinfo",
                "snapshot_create", "snapshot_list", "snapshot_revert"}

\* the i-th call of the operation that returned last is the failure the
\* operation answers for (up()'s status query is not: see C9)
Failure(i) ==
    /\ i \in DOMAIN last.calls
    /\ ~last.calls[i].ok
    /\ last.op = "up" => i = 1

WrappedFailure(i) ==
    /\ last.kind = "FDroidBuildVmException"
    /\ last.cause = ErrOf(last.calls[i])

\* C10 as stated: a tool or daemon failure during up, halt, suspend, sshinfo,
\* snapshot_create, snapshot_list or snapshot_revert reaches the caller as
\* FDroidBuildVmException carrying the original error as its cause.
C10_AllWrapped ==
    \A i \in 1..3 :
        (last.op \in WrappingOps \cup {"halt"} /\ Failure(i)) => WrappedFailure(i)

\* C10, amended: so it is for up, suspend, sshinfo, snapshot_create,
\* snapshot_list and snapshot_revert; a failure during halt reaches the
\* caller too, but as the tool's own CalledProcessError.
C10_WrappedButHalt ==
    \A i \in 1..3 :
        /\ (last.op \in WrappingOps /\ Failure(i)) => WrappedFailure(i)
        /\ (last.op = "halt" /\ Failure(i))
              => /\ last.kind = "CalledProcessError"
                 /\ last.what = last.calls[i].cmd

\* a libvirt snapshot_revert whose third daemon call failed
C10_Witness ==
    /\ last.op = "snapshot_revert"
    /\ Failure(3)
    /\ last.calls[3].via = "daemon"
    /\ WrappedFailure(3)
    /\ last.cause.type = "libvirtError"

----------------------------------------------------------------------------
(* halt(): C11 *)

\* C11: halt() runs the forced stop, once, while it holds the lock, and when
\* the stop fails the caller receives the tool's CalledProcessError itself:
\* not a normal return and not another error with it as cause.
C11_HaltPropagates ==
    /\ \A t \in Threads : pc[t] = "halt_run" => lock = t
    /\ last.op = "halt" =>
          /\ CmdsOf(last) = << <<"vagrant", "halt", "--force">> >>
          /\ last.calls[1].ok => last.kind = "ok"
          /\ ~last.calls[1].ok
                => /\ last.kind = "CalledProcessError"
                   /\ last.what = last.calls[1].cmd
                   /\ last.cause = NoErr

\* a halt() whose stop failed has just raised the tool's error
C11_Witness ==
    /\ last.op = "halt"
    /\ ~last.calls[1].ok
    /\ last.kind = "CalledProcessError"
    /\ lock = NoThread

----------------------------------------------------------------------------
(* snapshot_exists: C12 *)

\* C12: snapshot_exists(name) never raises, on either backend and whatever
\* the controller's identifier: it returns, and it returns false whenever
\* its query failed.
C12_ExistsNeverRaises ==
    last.op = "snapshot_exists" =>
        /\ last.kind = "ok"
        /\ (\E i \in DOMAIN last.calls : ~last.calls[i].ok) => last.value = <<FALSE>>

----------------------------------------------------------------------------
(* sshinfo(): C16 *)

SshReturned == last.op = "sshinfo" /\ last.kind = "ok"
Idfile == last.value[1]
Parsed == last.value[2]
Quoted(v) == Len(v) >= 2 /\ v[1] = "\"" /\ v[Len(v)] = "\""
Unquote(v) == IF Quoted(v) THEN [i \in 1..(Len(v) - 2) |-> v[i + 1]] ELSE v

\* C16 as stated: the identity file is the single value without surrounding
\* double quotes, or the first element of a list, likewise without them.
C16_IdfileStripped ==
    SshReturned => Idfile = Unquote(Parsed.items[1])

\* C16, amended: a single value is returned without surrounding double
\* quotes (unchanged when it has none); a list yields its first element as
\* it was parsed, quotes included.
C16_IdfileNormalized ==
    SshReturned =>
        /\ ~Parsed.islist => Idfile = Unquote(Parsed.items[1])
        /\ Parsed.islist => Idfile = Parsed.items[1]

\* sshinfo() has returned the quoted first element of a list, quotes kept
C16_Witness ==
    /\ SshReturned
    /\ Parsed.islist
    /\ Quoted(Parsed.items[1])
    /\ Idfile = Parsed.items[1]

----------------------------------------------------------------------------
(* The lock's release: C20 *)

WaitsForLock(t) == pc[t] \in {"up_wait", "suspend_wait", "halt_wait"}

----------------------------------------------------------------------------
(* box_add: C13 *)

BoxfileMissing == last.op = "box_add" /\ ~last.value[1]
PoolAtCall == last.value[3]

\* C13: box_add with a source file that does not exist ends in
\* FDroidBuildVmException, on both backends and for both values of force,
\* with no tool called and the storage pool as it was.
C13_MissingBoxfile ==
    BoxfileMissing =>
        /\ last.kind = "FDroidBuildVmException"
        /\ last.calls = <<>>
        /\ pool = PoolAtCall

----------------------------------------------------------------------------
(* LibvirtBuildVm.package: C17, C18, C19 *)

Packaged == last.op = "package"
Completed == Packaged /\ last.kind = "ok" /\ last.value.found
Archive == wdir[IF last.value.output = Null THEN "buildserver.box"
                ELSE last.value.output].entries
\* the smallest n with n * 2^30 >= gib * 2^30 + rest, for rest < 2^30
CeilGiB(b) == IF b.rest = 0 THEN b.gib ELSE b.gib + 1

\* C17: a package() run in which pool and volume are found and every call
\* succeeds writes an archive of exactly metadata.json, Vagrantfile and
\* box.img, the metadata's virtual_size being the probed size in bytes
\* divided by 2^30 and rounded up.
C17_ArchiveAndSize ==
    Completed =>
        /\ DOMAIN Archive = {"metadata.json", "Vagrantfile", "box.img"}
        /\ Archive["metadata.json"].virtual_size = CeilGiB(last.value.size)

PoolUnreachable == Packaged /\ (~last.value.found \/ last.value.fail = "pool")

\* C18: when the storage pool 'default' cannot be reached package() returns
\* normally, whatever the domain's state, leaves the working directory as it
\* was and runs no external tool.
C18_SkipsPackaging ==
    PoolUnreachable =>
        /\ last.kind = "ok"
        /\ wdir = last.value.before
        /\ \A i \in DOMAIN last.calls : last.calls[i].via = "daemon"

FailedAfterCopy == Packaged /\ last.value.fail \in {"rebase", "info", "archive"}

\* C19: after a package() without retention that completed, or failed after
\* the image copy, none of metadata.json, Vagrantfile, box.img is in the
\* working directory; after a completed one with retention all three are.
C19_Intermediates ==
    /\ ((Completed \/ FailedAfterCopy) /\ ~last.value.keep)
          => DOMAIN wdir \cap {"metadata.json", "Vagrantfile", "box.img"} = {}
    /\ (Completed /\ last.value.keep)
          => {"metadata.json", "Vagrantfile", "box.img"} \subseteq DOMAIN wdir

----------------------------------------------------------------------------
(* get_clean_builder: C14, C15 *)

Protocol == <<"destroy", "up", "sshinfo", "halt", "up", "sshinfo">>
GcbOps == [i \in DOMAIN gcb.log |-> gcb.log[i].op]
Called(op) == Cardinality({i \in DOMAIN gcb.log : gcb.log[i].op = op})
LifecycleError(i) == gcb.log[i].kind = "FDroidBuildVmException"
GcbEnded == gcb.at \in {"returned", "raised"}

\* C14: get_clean_builder calls destroy, up, sshinfo in this order; it goes
\* on to halt, up, sshinfo exactly when the first sshinfo raised a lifecycle
\* error, and does so once; every other failure ends the run with the
\* failing operation's exception, the second sshinfo's, halt's and the
\* second up's included.  A run has at most two up calls, two sshinfo calls
\* and one halt, and no operation issues its start or stop tool call more
\* than once.
C14_CleanBuilderProtocol ==
    LET n == Len(gcb.log)
    IN  /\ n <= Len(Protocol)
        /\ GcbOps = SubSeq(Protocol, 1, n)
        /\ n > 3 => LifecycleError(3)
        /\ (n = 3 /\ LifecycleError(3)) => gcb.at = "halt"
        /\ \A i \in 1..n :
              gcb.log[i].kind # "ok" /\ ~(i = 3 /\ LifecycleError(3)) =>
                  /\ i = n
                  /\ gcb.at = "raised"
                  /\ gcb.raised.type = gcb.log[i].kind
                  /\ last.op = gcb.log[i].op /\ last.kind = gcb.raised.type
        /\ gcb.at = "returned" =>
              /\ n \in {3, 6}
              /\ gcb.log[n].kind = "ok"
              /\ last.op = "sshinfo" /\ last.kind = "ok"
        /\ Called("up") <= 2 /\ Called("sshinfo") <= 2 /\ Called("halt") <= 1
        /\ \A i \in 1..n : gcb.log[i].tools <= 1

\* the workaround ran and its own sshinfo failed as well
C14_Witness ==
    /\ gcb.at = "raised"
    /\ Len(gcb.log) = 6
    /\ gcb.raised.type = "FDroidBuildVmException"
    /\ Called("halt") = 1 /\ Called("up") = 2

\* C15: once get_clean_builder is about to construct the controller, the
\* directory it was given holds a Vagrantfile, and the construction does not
\* fail for a missing Vagrantfile.
C15_DefaultVagrantfile ==
    /\ gcb.at = "get_build_vm" => fs[gcb.serverdir].vagrantfile
    /\ ~(gcb.at = "raised" /\ last.op = "get_build_vm"
           /\ last.what = "Vagrantfile not present")

----------------------------------------------------------------------------
(* Operations outside the lock: C21 *)

InDestroy(t) == pc[t] \in {"d_vagrant", "d_rmtree", "d_tail"}
UnlockedOps ==
    {"destroy", "sshinfo", "snapshot_create", "snapshot_list", "snapshot_revert",
     "snapshot_exists", "box_add"}
\* the step is one of an operation outside the lock, run by thread t
UnlockedStepOf(t) ==
    \/ pc'[t] # pc[t] /\ (InDestroy(t) \/ InDestroy(t)')
    \/ last'.t = t /\ last'.op \in UnlockedOps
InsideLocked(t) == AtBackendCall(t) /\ lock = t

\* C21: destroy, sshinfo, the snapshot operations and box_add neither take
\* nor wait for the lock: no step of theirs changes it, a thread inside
\* destroy never holds it, and a destroy that was called returns whatever the
\* thread inside up, suspend or halt does, even if that thread never leaves
\* its tool call.
C21_NotSerialized ==
    /\ [](\A t \in Threads : InDestroy(t) => lock # t)
    /\ [][\A t \in Threads : UnlockedStepOf(t) => lock' = lock]_vars
    /\ \A t \in Threads : InDestroy(t) ~> (pc[t] = "idle" /\ last.op = "destroy")

\* a destroy of the same directory has removed .vagrant and returned while
\* the other thread is between its start call and its identifier refresh
C21_Witness ==
    /\ pc["t1"] = "up_fetch" /\ InsideLocked("t1")
    /\ last.t = "t2" /\ last.op = "destroy" /\ last.kind = "ok"
    /\ ctl[last.c].srvdir = ctl[cur["t1"]].srvdir
    /\ hist.dirty["t1"]
    /\ fs[ctl[last.c].srvdir].dot.kind = "none"

----------------------------------------------------------------------------
(* The stored identifier and the derived name: C22 *)

Built(c) == ctl[c].state = "ready"
\* the step is the return of an up() of controller c whose start call succeeded
StartedUp(c) ==
    /\ last'.op = "up" /\ last'.c = c /\ last'.kind = "ok"
    /\ \E i \in DOMAIN last'.calls :
          last'.calls[i].cmd = UpCmd(ctl[c].provider) /\ last'.calls[i].ok

\* C22: once a controller is constructed its srvname never changes, and its
\* srvuuid, and with it the answer of vagrant_uuid_okay(), changes only in
\* the return of an up() whose start call succeeded; halt, suspend, destroy,
\* a failed up, sshinfo, the snapshot operations and box_add leave the
\* controller as it was, also when destroy has removed .vagrant.
C22_IdentifierFrame ==
    [][\A c \in Ctls :
          Built(c) =>
              /\ ctl'[c].srvname = ctl[c].srvname
              /\ ~StartedUp(c) =>
                    /\ ctl'[c].srvuuid = ctl[c].srvuuid
                    /\ vagrant_uuid_okay(ctl'[c]) = vagrant_uuid_okay(ctl[c])]_vars

\* destroy() has removed .vagrant and returned, and the controller still
\* holds the identifier read before
C22_Witness ==
    /\ last.op = "destroy" /\ last.kind = "ok"
    /\ fs[ctl[last.c].srvdir].dot.kind = "none"
    /\ \E i \in DOMAIN last.calls : last.calls[i].cmd = RmtreeCmd /\ last.calls[i].ok
    /\ ctl[last.c].srvuuid = "u1"
    /\ vagrant_uuid_okay(ctl[last.c])

----------------------------------------------------------------------------
(* Snapshots keyed by name: C23 *)

SnapshotAnswer == last.op \in {"snapshot_exists", "snapshot_revert"} /\ last.kind = "ok"
\* the snapshots of the machine the last operation was about
MadeOn == {e \in snaps.store : e.vm = VmOf(ctl[last.c])}
\* every call of the last operation was answered; a lookup of a snapshot
\* that is not there is an answer
Answered ==
    \A i \in DOMAIN last.calls :
        last.calls[i].ok \/ last.calls[i].cmd[1] = "snapshotLookupByName"

\* C23: on a machine whose only snapshot was made by snapshot_create(a),
\* snapshot_exists(n) returns true for n = a and false for every other name,
\* and snapshot_revert(a) names the snapshot snapshot_create(a) made.
C23_KeyedByName ==
    (SnapshotAnswer /\ Answered /\ Cardinality(MadeOn) = 1) =>
        LET e == CHOOSE x \in MadeOn : TRUE
        IN  /\ last.op = "snapshot_exists" => last.value[1] = (snaps.asked = e.by)
            /\ (last.op = "snapshot_revert" /\ snaps.asked = e.by) =>
                  Addressed(last) = e.name

====
